---- MODULE Spec2Model ----
(***************************************************************************)
(* nicos-sandbox-helper.c: the setuid-root helper that unshares the mount, *)
(* network and IPC namespaces, bind-mounts / onto a target directory,      *)
(* remounts the copies read-only, chroots, drops group and user id and     *)
(* execs the sandboxed binary.                                             *)
(*                                                                         *)
(* C strings are sequences of one-character strings (<<"5","x">>), so that *)
(* strtol and strstr are computed character by character.  The kernel is   *)
(* the environment: every system call draws its outcome from the set of    *)
(* outcomes that call can have in the state it is issued in.  The mount    *)
(* table lists one mount per mount directory (no stacked mounts).          *)
(***************************************************************************)
EXTENDS Integers, Sequences, FiniteSets, TLC

VARIABLES
    argv,          \* the invocation, argv[0] first (1-based here: Arg(k) is C's argv[k])
    pc,            \* position of main
    calls,         \* the library and system calls issued so far, in order
    mounts,        \* mount table of the namespace the process is in
    parentMounts,  \* mount table of the namespace the process was started in
    unshared,      \* TRUE once unshare() has put the process in its own namespaces
    propagation,   \* "shared" or "private": propagation of this namespace's mounts
    cwd,           \* working directory (a path of the starting root)
    root,          \* filesystem root of the process (a path of the starting root)
    cred,          \* [uid, gid]: effective ids, 32-bit
    mntpos,        \* getmntent's position in /proc/self/mounts; 0 while not open
    id,            \* main's `long id`
    ptr,           \* main's `char *ptr`, as the index it points to in the parsed string
    errno,         \* error of the latest call in calls, "OK" when it succeeded
    diag,          \* the diagnostic printed by err()/errx(), NoDiag while none
    exitStatus,    \* status passed to exit(), -1 while running
    image          \* what execvp() replaced the process with, NoImage before

vars == <<argv, pc, calls, mounts, parentMounts, unshared, propagation, cwd,
          root, cred, mntpos, id, ptr, errno, diag, exitStatus, image>>

----------------------------------------------------------------------------
(* Bounds and inputs *)

\* number of host mounts besides the root filesystem
MaxMounts == 2

NoDiag == [fmt |-> "", arg |-> <<>>, errno |-> "OK"]
NoImage == [file |-> <<>>, argv |-> <<>>]

\* paths and words of the invocations
RootPath == <<"/">>
SandboxDir == <<"/", "s">>          \* an existing directory
MissingDir == <<"/", "n">>          \* a path that does not exist
Prog == <<"h">>
Binary == <<"e">>
BinaryArg == <<"h", "i">>

RootDirs == {SandboxDir, MissingDir}

\* 2^32, one more than the largest uid_t, and 2^63, one more than LONG_MAX
Str4294967296 == <<"4", "2", "9", "4", "9", "6", "7", "2", "9", "6">>
Str9223372036854775808 ==
    <<"9", "2", "2", "3", "3", "7", "2", "0", "3", "6", "8", "5", "4", "7", "7",
      "5", "8", "0", "8">>

IdStrings ==
    {<<>>, <<"5">>, <<"5", "x">>, <<"x">>, <<"-", "1">>, <<"+", "5">>, <<" ", "5">>,
     Str4294967296, Str9223372036854775808}

\* the (uid, gid) arguments: each string beside a plain number, and twice
IdPairs ==
    {p \in IdStrings \X IdStrings : p[1] = <<"5">> \/ p[2] = <<"5">> \/ p[1] = p[2]}

Argvs ==
    {<<Prog, r, p[1], p[2], Binary, BinaryArg>> : r \in RootDirs, p \in IdPairs}
    \cup {SubSeq(<<Prog, SandboxDir, <<"5">>, <<"5">>, Binary>>, 1, n) : n \in 1..5}

\* the root filesystem's entry, and the host mounts a table is drawn from:
\* an ordinary mount, a tmpfs, a sibling of the sandbox directory that shares
\* its textual prefix, and a special filesystem
RootEntry ==
    [mnt_dir |-> RootPath, mnt_type |-> "ext4", mnt_opts |-> {"rw", "relatime"}]

HostEntries ==
    {[mnt_dir |-> <<"/", "d">>, mnt_type |-> "ext4",
      mnt_opts |-> {"rw", "nodev", "noexec"}],
     [mnt_dir |-> <<"/", "t">>, mnt_type |-> "tmpfs",
      mnt_opts |-> {"rw", "nosuid", "noatime"}],
     [mnt_dir |-> <<"/", "s", "Y">>, mnt_type |-> "ext4",
      mnt_opts |-> {"rw", "nodiratime"}],
     [mnt_dir |-> <<"/", "p">>, mnt_type |-> "proc",
      mnt_opts |-> {"ro", "nosuid", "nodev", "noexec", "relatime"}]}

\* mount tables: the root entry, then up to MaxMounts host mounts, one per directory
HostTables ==
    {<<RootEntry>> \o t : t \in
        {t \in UNION {[1..n -> HostEntries] : n \in 0..MaxMounts} :
            \A i, j \in DOMAIN t : i # j => t[i].mnt_dir # t[j].mnt_dir}}

----------------------------------------------------------------------------
(* long and uid_t/gid_t arithmetic.  A magnitude is four 16-bit limbs,     *)
(* least significant first (64 bits); a long is a sign and a magnitude; an *)
(* id_t is the two low limbs [hi, lo] (32 bits).                           *)

LimbBase == 256 * 256
HalfLimb == 128 * 256

ZeroMag == <<0, 0, 0, 0>>
LongMaxMag == <<LimbBase - 1, LimbBase - 1, LimbBase - 1, HalfLimb - 1>>
LongMinMag == <<0, 0, 0, HalfLimb>>

\* m * 10 + d on 64 bits, with the carry out of bit 63
MulAdd10(m, d) ==
    LET t1 == m[1] * 10 + d
        t2 == m[2] * 10 + (t1 \div LimbBase)
        t3 == m[3] * 10 + (t2 \div LimbBase)
        t4 == m[4] * 10 + (t3 \div LimbBase)
    IN  [mag |-> <<t1 % LimbBase, t2 % LimbBase, t3 % LimbBase, t4 % LimbBase>>,
         carry |-> t4 \div LimbBase]

\* the magnitude does not fit a long of that sign
OutOfLong(neg, m) ==
    IF neg
    THEN m[4] > HalfLimb \/ (m[4] = HalfLimb /\ <<m[1], m[2], m[3]>> # <<0, 0, 0>>)
    ELSE m[4] >= HalfLimb

\* conversion of a long to uid_t/gid_t: the low 32 bits of its two's complement
ToIdT(v) ==
    IF ~v.neg
    THEN [hi |-> v.mag[2], lo |-> v.mag[1]]
    ELSE [hi |-> (LimbBase - v.mag[2] - (IF v.mag[1] = 0 THEN 0 ELSE 1)) % LimbBase,
          lo |-> (LimbBase - v.mag[1]) % LimbBase]

\* (uid_t)-1, which the kernel rejects as no id at all
InvalidId == [hi |-> LimbBase - 1, lo |-> LimbBase - 1]
RootId == [hi |-> 0, lo |-> 0]

\* a small non-negative integer as a long / as an id
LongOf(n) == [neg |-> FALSE, mag |-> <<n % LimbBase, n \div LimbBase, 0, 0>>]
IdOf(n) == ToIdT(LongOf(n))

\* the ids of the user who starts the helper; the helper's effective uid is
\* root when it is installed setuid root
CallerId == IdOf(1000)
NoId == [hi |-> -1, lo |-> -1]

----------------------------------------------------------------------------
(* <stdlib.h>, <string.h>, <mntent.h> as the helper uses them *)

Digits == <<"0", "1", "2", "3", "4", "5", "6", "7", "8", "9">>
IsDigit(c) == \E d \in 1..10 : Digits[d] = c
DigitVal(c) == (CHOOSE d \in 1..10 : Digits[d] = c) - 1
IsSpace(c) == c \in {" ", "\t", "\n", "\r", "\f"}

RECURSIVE SkipSpace(_, _)
SkipSpace(s, i) ==
    IF i <= Len(s) /\ IsSpace(s[i]) THEN SkipSpace(s, i + 1) ELSE i

\* the digits from s[i] on: [mag, ovf, end], end the index after the last
\* digit.  A function, so that each digit is added to a computed magnitude.
ScanDigits[s \in Seq(STRING), i \in Nat, m \in Seq(Nat), ovf \in BOOLEAN] ==
    IF i <= Len(s) /\ IsDigit(s[i])
    THEN LET r == MulAdd10(m, DigitVal(s[i]))
         IN  ScanDigits[s, i + 1, r.mag, ovf \/ r.carry # 0]
    ELSE [mag |-> m, ovf |-> ovf, end |-> i]

\* strtol(s, &ptr, 10): optional white space, optional sign, digits.  end is
\* the index ptr is left at (Len(s) + 1 is the terminating NUL); with no
\* digits the value is 0 and ptr is s itself; out of range the value
\* saturates to LONG_MAX / LONG_MIN.
strtol(s) ==
    LET i0 == SkipSpace(s, 1)
        signed == i0 <= Len(s) /\ s[i0] \in {"-", "+"}
        neg == signed /\ s[i0] = "-"
        i1 == IF signed THEN i0 + 1 ELSE i0
        r == ScanDigits[s, i1, ZeroMag, FALSE]
    IN  IF r.end = i1
        THEN [val |-> [neg |-> FALSE, mag |-> ZeroMag], end |-> 1]
        ELSE IF r.ovf \/ OutOfLong(neg, r.mag)
        THEN [val |-> [neg |-> neg, mag |-> IF neg THEN LongMinMag ELSE LongMaxMag],
              end |-> r.end]
        ELSE [val |-> [neg |-> neg /\ r.mag # ZeroMag, mag |-> r.mag], end |-> r.end]

\* strstr(haystack, needle): index of the first occurrence, 0 for NULL
strstr(haystack, needle) ==
    LET hits == {i \in 1..(Len(haystack) + 1) :
                    /\ i + Len(needle) - 1 <= Len(haystack)
                    /\ \A k \in 1..Len(needle) : haystack[i + k - 1] = needle[k]}
    IN  IF hits = {} THEN 0 ELSE CHOOSE i \in hits : \A j \in hits : i <= j

\* hasmntopt(ent, opt): opt is one of the comma-separated options of the entry
hasmntopt(ent, opt) == opt \in ent.mnt_opts

----------------------------------------------------------------------------
(* The kernel, as far as the helper's calls reach it *)

\* the per-mount flags and the option each shows as in /proc/self/mounts
FlagOption ==
    [MS_NODEV |-> "nodev", MS_NOEXEC |-> "noexec", MS_NOSUID |-> "nosuid",
     MS_NOATIME |-> "noatime", MS_NODIRATIME |-> "nodiratime",
     MS_RELATIME |-> "relatime"]
PerMountOptions == {"ro", "rw"} \cup {FlagOption[f] : f \in DOMAIN FlagOption}

\* mount(NULL, dir, NULL, MS_REMOUNT | MS_BIND | flags, NULL) on one mount:
\* its per-mount options become those the flags name, and no others
KRemount(ent, flags) ==
    [ent EXCEPT !.mnt_opts =
        (@ \ PerMountOptions)
        \cup {IF "MS_RDONLY" \in flags THEN "ro" ELSE "rw"}
        \cup {FlagOption[f] : f \in flags \cap DOMAIN FlagOption}]

\* the remount applied to the mount at dir in a table
KRemountAt(tbl, dir, flags) ==
    [i \in DOMAIN tbl |->
        IF tbl[i].mnt_dir = dir THEN KRemount(tbl[i], flags) ELSE tbl[i]]

\* mount("/", target, NULL, MS_BIND | MS_REC, NULL): every mount of the tree
\* appears again under target, with its type and options
Rebase(target, dir) == IF dir = RootPath THEN target ELSE target \o dir
KBindRec(tbl, target) ==
    tbl \o [i \in DOMAIN tbl |-> [tbl[i] EXCEPT !.mnt_dir = Rebase(target, @)]]

\* directories that exist on the host
ExistingDirs(tbl) == {SandboxDir} \cup {tbl[i].mnt_dir : i \in DOMAIN tbl}

Privileged == cred.uid = RootId

UnshareOutcomes == IF Privileged THEN {"OK", "ENOMEM"} ELSE {"EPERM"}
MakePrivateOutcomes == IF Privileged THEN {"OK", "EINVAL"} ELSE {"EPERM"}
BindOutcomes(target) ==
    IF ~Privileged THEN {"EPERM"}
    ELSE IF target \notin ExistingDirs(mounts) THEN {"ENOENT"}
    ELSE {"OK", "ENOMEM"}
SetmntentOutcomes == {"OK", "ENOENT"}
RemountOutcomes ==
    IF ~Privileged THEN {"EPERM"}
    ELSE {"OK", "EACCES", "EINVAL", "ESTALE", "EPERM", "EBUSY"}
ChdirOutcomes == {"OK", "EACCES"}
ChrootOutcomes == IF Privileged THEN {"OK", "ENOENT"} ELSE {"EPERM"}
SetgidOutcomes(g) ==
    IF g = InvalidId THEN {"EINVAL"}
    ELSE IF Privileged \/ g = cred.gid THEN {"OK"} ELSE {"EPERM"}
SetuidOutcomes(u) ==
    IF u = InvalidId THEN {"EINVAL"}
    ELSE IF Privileged THEN {"OK", "EAGAIN"}
    ELSE IF u = cred.uid THEN {"OK"} ELSE {"EPERM"}
ExecOutcomes == {"OK", "ENOENT"}

\* a call's return value
Ret(outcome) == IF outcome = "OK" THEN 0 ELSE -1

\* mounts made in this namespace show in the parent's table while the process
\* is still in the parent's namespace or its mounts still propagate
BindReachesParent == ~unshared \/ propagation = "shared"
\* per-mount flags belong to the namespace's own copy of the mount
RemountReachesParent == ~unshared

----------------------------------------------------------------------------
(* The helper's own decisions *)

argc == Len(argv)
Arg(k) == argv[k + 1]

\* one entry of the call history
Call(name, path, flags, idarg, ret) ==
    [call |-> name, path |-> path, flags |-> flags, id |-> idarg, ret |-> ret]

\* the argument count test one too low
TooFewArgs_OffByOne(n) == n < 4

\* main: if (argc < 5) errx(...)
TooFewArgs(n) == n < 5

\* a return value test that was left out
Unchecked(ret) == FALSE

\* the `< 0` tests on the calls' return values
UnshareFailed(ret) == ret < 0
MakePrivateFailed(ret) == ret < 0
BindFailed(ret) == ret < 0
ChdirFailed(ret) == ret < 0
ChrootFailed(ret) == ret < 0
SetgidFailed(ret) == ret < 0
SetuidFailed(ret) == ret < 0
ExecFailed(ret) == ret < 0

\* main: *argv[n] == '\0' || *ptr != '\0', after ptr was set by strtol
NotNumeric(s, end) == Len(s) = 0 \/ end <= Len(s)

\* make_mounts_readonly: the two `continue` tests
\* the prefix test that takes the prefix as a directory, not as characters
NotUnderPrefix_PathAware(ent, prefix) ==
    \/ strstr(ent.mnt_dir, prefix) # 1
    \/ (Len(ent.mnt_dir) > Len(prefix) /\ ent.mnt_dir[Len(prefix) + 1] # "/")

NotUnderPrefix(ent, prefix) == strstr(ent.mnt_dir, prefix) # 1
IsTmpfs(ent) == ent.mnt_type = "tmpfs"
Skipped(ent, prefix) == NotUnderPrefix(ent, prefix) \/ IsTmpfs(ent)

\* the remount without the read-only flag
RemountFlags_NotReadOnly(ent) ==
    {"MS_BIND", "MS_REMOUNT"}
    \cup {f \in DOMAIN FlagOption : hasmntopt(ent, FlagOption[f])}

\* the remount that does not restore noexec
RemountFlags_DropsNoexec(ent) ==
    {"MS_BIND", "MS_REMOUNT", "MS_RDONLY"}
    \cup {f \in DOMAIN FlagOption \ {"MS_NOEXEC"} : hasmntopt(ent, FlagOption[f])}

\* make_mounts_readonly: the flags of the remount
RemountFlags(ent) ==
    {"MS_BIND", "MS_REMOUNT", "MS_RDONLY"}
    \cup (IF hasmntopt(ent, "nodev") THEN {"MS_NODEV"} ELSE {})
    \cup (IF hasmntopt(ent, "noexec") THEN {"MS_NOEXEC"} ELSE {})
    \cup (IF hasmntopt(ent, "nosuid") THEN {"MS_NOSUID"} ELSE {})
    \cup (IF hasmntopt(ent, "noatime") THEN {"MS_NOATIME"} ELSE {})
    \cup (IF hasmntopt(ent, "nodiratime") THEN {"MS_NODIRATIME"} ELSE {})
    \cup (IF hasmntopt(ent, "relatime") THEN {"MS_RELATIME"} ELSE {})

\* the errno test without EPERM
RemountFatal_EpermFatal(ret, e) ==
    ret < 0 /\ e # "EACCES" /\ e # "EINVAL" /\ e # "ESTALE"

\* make_mounts_readonly: a failed remount is fatal unless errno is one of these
RemountFatal(ret, e) ==
    ret < 0 /\ e # "EACCES" /\ e # "EINVAL" /\ e # "ESTALE" /\ e # "EPERM"

\* the order of main's stages
MainOrder ==
    <<"start", "unshare", "makeprivate", "bind", "setmntent", "getmntent", "chdir",
      "chroot", "parsegid", "setgid", "parseuid", "setuid", "exec", "return">>

NextIn(order, stage) == order[(CHOOSE i \in DOMAIN order : order[i] = stage) + 1]

\* main with the privilege drop moved before chdir and chroot
Succ_DropBeforeChroot(stage) ==
    NextIn(<<"start", "unshare", "makeprivate", "bind", "setmntent", "getmntent",
             "parsegid", "setgid", "parseuid", "setuid", "chdir", "chroot", "exec",
             "return">>, stage)

\* main with the user id set before the group id
Succ_UidBeforeGid(stage) ==
    NextIn(<<"start", "unshare", "makeprivate", "bind", "setmntent", "getmntent",
             "chdir", "chroot", "parseuid", "setuid", "parsegid", "setgid", "exec",
             "return">>, stage)

\* main with chroot moved after the privilege drop
Succ_ChrootAfterSetuid(stage) ==
    NextIn(<<"start", "unshare", "makeprivate", "bind", "setmntent", "getmntent",
             "chdir", "parsegid", "setgid", "parseuid", "setuid", "chroot", "exec",
             "return">>, stage)

Succ(stage) == NextIn(MainOrder, stage)

\* err(1, fmt, arg) / errx(1, fmt, arg) after the calls in newcalls: the
\* diagnostic (err adds the text of errno, errx does not), then exit(1)
Die(fmt, arg, e, newcalls) ==
    /\ pc' = "exit"
    /\ diag' = [fmt |-> fmt, arg |-> arg, errno |-> e]
    /\ exitStatus' = 1
    /\ calls' = Append(newcalls, Call("exit", <<>>, {}, NoId, 1))

\* the stage is passed
Proceed(stage, newcalls) ==
    /\ pc' = Succ(stage)
    /\ calls' = newcalls
    /\ UNCHANGED <<diag, exitStatus>>

----------------------------------------------------------------------------
(* main *)

Init ==
    /\ argv \in Argvs
    /\ pc = "start"
    /\ calls = <<>>
    /\ mounts \in HostTables
    /\ parentMounts = mounts
    /\ unshared = FALSE
    /\ propagation = "shared"
    /\ cwd = RootPath
    /\ root = RootPath
    /\ cred \in {[uid |-> RootId, gid |-> CallerId], [uid |-> CallerId, gid |-> CallerId]}
    /\ mntpos = 0
    /\ id = LongOf(0)
    /\ ptr = 0
    /\ errno = "OK"
    /\ diag = NoDiag
    /\ exitStatus = -1
    /\ image = NoImage

\* if (argc < 5) errx(1, "usage: ...", argv[0]);
CheckArgs ==
    /\ pc = "start"
    /\ IF TooFewArgs(argc)
       THEN Die("usage: %s rootdir uid gid binary [args...]", Arg(0), "OK", calls)
       ELSE Proceed("start", calls)
    /\ UNCHANGED <<argv, mounts, parentMounts, unshared, propagation, cwd, root,
                   cred, mntpos, id, ptr, errno, image>>

\* unshare(CLONE_NEWNS | CLONE_NEWNET | CLONE_NEWIPC)
Unshare ==
    /\ pc = "unshare"
    /\ \E o \in UnshareOutcomes :
        LET c == Call("unshare", <<>>, {"CLONE_NEWNS", "CLONE_NEWNET", "CLONE_NEWIPC"},
                      NoId, Ret(o))
        IN  /\ errno' = o
            /\ unshared' = (unshared \/ o = "OK")
            /\ IF UnshareFailed(Ret(o))
               THEN Die("could not create namespaces (is the binary setuid root?)",
                        <<>>, o, Append(calls, c))
               ELSE Proceed("unshare", Append(calls, c))
    /\ UNCHANGED <<argv, mounts, parentMounts, propagation, cwd, root, cred,
                   mntpos, id, ptr, image>>

\* mount(NULL, "/", NULL, MS_REC | MS_PRIVATE, NULL)
MakePrivate ==
    /\ pc = "makeprivate"
    /\ \E o \in MakePrivateOutcomes :
        LET c == Call("mount", RootPath, {"MS_REC", "MS_PRIVATE"}, NoId, Ret(o))
        IN  /\ errno' = o
            /\ propagation' = IF o = "OK" THEN "private" ELSE propagation
            /\ IF MakePrivateFailed(Ret(o))
               THEN Die("could not make mounts private", <<>>, o, Append(calls, c))
               ELSE Proceed("makeprivate", Append(calls, c))
    /\ UNCHANGED <<argv, mounts, parentMounts, unshared, cwd, root, cred, mntpos,
                   id, ptr, image>>

\* mount("/", argv[1], NULL, MS_BIND | MS_REC, NULL)
BindMount ==
    /\ pc = "bind"
    /\ \E o \in BindOutcomes(Arg(1)) :
        LET c == Call("mount", Arg(1), {"MS_BIND", "MS_REC"}, NoId, Ret(o))
        IN  /\ errno' = o
            /\ mounts' = IF o = "OK" THEN KBindRec(mounts, Arg(1)) ELSE mounts
            /\ parentMounts' = IF o = "OK" /\ BindReachesParent
                               THEN KBindRec(parentMounts, Arg(1))
                               ELSE parentMounts
            /\ IF BindFailed(Ret(o))
               THEN Die("could not create bind mount at %s", Arg(1), o, Append(calls, c))
               ELSE Proceed("bind", Append(calls, c))
    /\ UNCHANGED <<argv, unshared, propagation, cwd, root, cred, mntpos, id, ptr,
                   image>>

\* make_mounts_readonly(argv[1]): setmntent("/proc/self/mounts", "r")
SetMntEnt ==
    /\ pc = "setmntent"
    /\ \E o \in SetmntentOutcomes :
        LET c == Call("setmntent", <<>>, {}, NoId, Ret(o))
        IN  /\ errno' = o
            /\ mntpos' = IF o = "OK" THEN 1 ELSE mntpos
            /\ IF o # "OK"
               THEN Die("could not get list of mountpoints", <<>>, o, Append(calls, c))
               ELSE Proceed("setmntent", Append(calls, c))
    /\ UNCHANGED <<argv, mounts, parentMounts, unshared, propagation, cwd, root,
                   cred, id, ptr, image>>

\* the loop body for an entry one of the two tests skips
LoopSkip ==
    /\ pc = "getmntent"
    /\ mntpos \in DOMAIN mounts
    /\ Skipped(mounts[mntpos], Arg(1))
    /\ mntpos' = mntpos + 1
    /\ UNCHANGED <<argv, pc, calls, mounts, parentMounts, unshared, propagation,
                   cwd, root, cred, id, ptr, errno, diag, exitStatus, image>>

\* the loop body for the other entries: mount(NULL, ent->mnt_dir, NULL, flags, NULL)
LoopRemount ==
    /\ pc = "getmntent"
    /\ mntpos \in DOMAIN mounts
    /\ ~Skipped(mounts[mntpos], Arg(1))
    /\ \E o \in RemountOutcomes :
        LET ent == mounts[mntpos]
            flags == RemountFlags(ent)
            c == Call("mount", ent.mnt_dir, flags, NoId, Ret(o))
        IN  /\ errno' = o
            /\ mounts' = IF o = "OK" THEN KRemountAt(mounts, ent.mnt_dir, flags)
                         ELSE mounts
            /\ parentMounts' = IF o = "OK" /\ RemountReachesParent
                               THEN KRemountAt(parentMounts, ent.mnt_dir, flags)
                               ELSE parentMounts
            /\ IF RemountFatal(Ret(o), o)
               THEN /\ Die("could not set mountpoint %s read-only", ent.mnt_dir, o,
                           Append(calls, c))
                    /\ UNCHANGED mntpos
               ELSE /\ mntpos' = mntpos + 1
                    /\ calls' = Append(calls, c)
                    /\ UNCHANGED <<pc, diag, exitStatus>>
    /\ UNCHANGED <<argv, unshared, propagation, cwd, root, cred, id, ptr, image>>

\* getmntent returns NULL: endmntent(mounts), and back in main
LoopEnd ==
    /\ pc = "getmntent"
    /\ mntpos > Len(mounts)
    /\ mntpos' = 0
    /\ errno' = "OK"
    /\ Proceed("getmntent", Append(calls, Call("endmntent", <<>>, {}, NoId, 1)))
    /\ UNCHANGED <<argv, mounts, parentMounts, unshared, propagation, cwd, root,
                   cred, id, ptr, image>>

\* chdir(argv[1])
Chdir ==
    /\ pc = "chdir"
    /\ \E o \in ChdirOutcomes :
        LET c == Call("chdir", Arg(1), {}, NoId, Ret(o))
        IN  /\ errno' = o
            /\ cwd' = IF o = "OK" THEN Arg(1) ELSE cwd
            /\ IF ChdirFailed(Ret(o))
               THEN Die("could not chdir into new root", <<>>, o, Append(calls, c))
               ELSE Proceed("chdir", Append(calls, c))
    /\ UNCHANGED <<argv, mounts, parentMounts, unshared, propagation, root, cred,
                   mntpos, id, ptr, image>>

\* chroot(argv[1])
Chroot ==
    /\ pc = "chroot"
    /\ \E o \in ChrootOutcomes :
        LET c == Call("chroot", Arg(1), {}, NoId, Ret(o))
        IN  /\ errno' = o
            /\ root' = IF o = "OK" THEN Arg(1) ELSE root
            /\ IF ChrootFailed(Ret(o))
               THEN Die("could not create chroot jail", <<>>, o, Append(calls, c))
               ELSE Proceed("chroot", Append(calls, c))
    /\ UNCHANGED <<argv, mounts, parentMounts, unshared, propagation, cwd, cred,
                   mntpos, id, ptr, image>>

\* id = strtol(argv[3], &ptr, 10); if (...) errx(1, "invalid numeric group id '%s' given", argv[3]);
ParseGid ==
    /\ pc = "parsegid"
    /\ LET r == strtol(Arg(3))
           c == Call("strtol", Arg(3), {}, NoId, 0)
       IN  /\ id' = r.val
           /\ ptr' = r.end
           /\ IF NotNumeric(Arg(3), r.end)
              THEN Die("invalid numeric group id '%s' given", Arg(3), "OK",
                       Append(calls, c))
              ELSE Proceed("parsegid", Append(calls, c))
    /\ UNCHANGED <<argv, mounts, parentMounts, unshared, propagation, cwd, root,
                   cred, mntpos, errno, image>>

\* setgid(id)
SetGid ==
    /\ pc = "setgid"
    /\ \E o \in SetgidOutcomes(ToIdT(id)) :
        LET c == Call("setgid", <<>>, {}, ToIdT(id), Ret(o))
        IN  /\ errno' = o
            /\ cred' = IF o = "OK" THEN [cred EXCEPT !.gid = ToIdT(id)] ELSE cred
            /\ IF SetgidFailed(Ret(o))
               THEN Die("could not set new group id %ld", id, o, Append(calls, c))
               ELSE Proceed("setgid", Append(calls, c))
    /\ UNCHANGED <<argv, mounts, parentMounts, unshared, propagation, cwd, root,
                   mntpos, id, ptr, image>>

\* id = strtol(argv[2], &ptr, 10); if (...) errx(1, "invalid numeric user id '%s' given", argv[3]);
ParseUid ==
    /\ pc = "parseuid"
    /\ LET r == strtol(Arg(2))
           c == Call("strtol", Arg(2), {}, NoId, 0)
       IN  /\ id' = r.val
           /\ ptr' = r.end
           /\ IF NotNumeric(Arg(2), r.end)
              THEN Die("invalid numeric user id '%s' given", Arg(3), "OK",
                       Append(calls, c))
              ELSE Proceed("parseuid", Append(calls, c))
    /\ UNCHANGED <<argv, mounts, parentMounts, unshared, propagation, cwd, root,
                   cred, mntpos, errno, image>>

\* setuid(id)
SetUid ==
    /\ pc = "setuid"
    /\ \E o \in SetuidOutcomes(ToIdT(id)) :
        LET c == Call("setuid", <<>>, {}, ToIdT(id), Ret(o))
        IN  /\ errno' = o
            /\ cred' = IF o = "OK" THEN [cred EXCEPT !.uid = ToIdT(id)] ELSE cred
            /\ IF SetuidFailed(Ret(o))
               THEN Die("could not set new user id %ld", id, o, Append(calls, c))
               ELSE Proceed("setuid", Append(calls, c))
    /\ UNCHANGED <<argv, mounts, parentMounts, unshared, propagation, cwd, root,
                   mntpos, id, ptr, image>>

\* execvp(argv[4], &argv[4]): on success the process is the new image; it
\* returns only when it failed
Exec ==
    /\ pc = "exec"
    /\ \E o \in ExecOutcomes :
        LET c == Call("execvp", Arg(4), {}, NoId, Ret(o))
        IN  /\ errno' = o
            /\ IF o = "OK"
               THEN /\ pc' = "execd"
                    /\ image' = [file |-> Arg(4), argv |-> SubSeq(argv, 5, Len(argv))]
                    /\ calls' = Append(calls, c)
                    /\ UNCHANGED <<diag, exitStatus>>
               ELSE /\ image' = image
                    /\ IF ExecFailed(Ret(o))
                       THEN Die("could not exec new process", <<>>, o, Append(calls, c))
                       ELSE /\ Proceed("exec", Append(calls, c))
    /\ UNCHANGED <<argv, mounts, parentMounts, unshared, propagation, cwd, root,
                   cred, mntpos, id, ptr>>

Next ==
    \/ CheckArgs
    \/ Unshare
    \/ MakePrivate
    \/ BindMount
    \/ SetMntEnt
    \/ LoopSkip
    \/ LoopRemount
    \/ LoopEnd
    \/ Chdir
    \/ Chroot
    \/ ParseGid
    \/ SetGid
    \/ ParseUid
    \/ SetUid
    \/ Exec

Spec == Init /\ [][Next]_vars

----------------------------------------------------------------------------
(* Reading the call history *)

IsCall(i, name) == calls[i].call = name
Succeeded(i) == calls[i].ret = 0
IsMakePrivate(i) == IsCall(i, "mount") /\ "MS_PRIVATE" \in calls[i].flags
IsBind(i) == IsCall(i, "mount") /\ calls[i].flags = {"MS_BIND", "MS_REC"}
IsRemount(i) == IsCall(i, "mount") /\ "MS_REMOUNT" \in calls[i].flags
IsIdentityChange(i) == IsCall(i, "setgid") \/ IsCall(i, "setuid")

\* some earlier call than the i-th is a successful call of that name
EarlierOk(i, name) == \E j \in 1..(i - 1) : IsCall(j, name) /\ Succeeded(j)

----------------------------------------------------------------------------
\* C1: chdir precedes chroot, the read-only pass is complete before chroot,
\* and chroot has succeeded before setgid or setuid is called.
ChrootBeforeIdentityChange ==
    \A i \in DOMAIN calls :
        /\ IsIdentityChange(i) => EarlierOk(i, "chroot")
        /\ IsCall(i, "chroot") =>
              /\ \E j \in 1..(i - 1) : IsCall(j, "endmntent")
              /\ \E j \in 1..(i - 1) :
                    IsCall(j, "chdir") /\ Succeeded(j) /\ calls[j].path = calls[i].path
        /\ IsRemount(i) => \A j \in 1..(i - 1) : ~IsCall(j, "chroot")

\* C1 witness: both identity changes were made, after chroot
IdentityChangedInJail ==
    /\ root = SandboxDir
    /\ \E i, j \in DOMAIN calls : IsCall(i, "setgid") /\ IsCall(j, "setuid")

\* C2: setuid is called only after setgid was called and succeeded, and
\* setgid is issued while the process still has the root user id.
GidBeforeUid ==
    /\ \A i \in DOMAIN calls : IsCall(i, "setuid") => EarlierOk(i, "setgid")
    /\ pc = "setgid" =>
          /\ cred.uid = RootId
          /\ \A i \in DOMAIN calls : ~IsCall(i, "setuid")

\* C2 witness: setuid was called and succeeded, changing the user id
UidSetAfterGid ==
    /\ \E i \in DOMAIN calls : IsCall(i, "setuid") /\ Succeeded(i)
    /\ cred.uid = IdOf(5)
    /\ cred.gid = IdOf(5)

\* a well-formed non-negative decimal integer: one or more digits, nothing else
WellFormedId(s) == Len(s) > 0 /\ \A k \in DOMAIN s : IsDigit(s[k])

\* C3: when the gid argument is well-formed and the uid argument is not, the
\* process has terminated without having called setgid or setuid.
BadUidStopsBeforeIdentityChange ==
    (pc = "exit" /\ argc >= 5 /\ WellFormedId(Arg(3)) /\ ~WellFormedId(Arg(2)))
        => \A i \in DOMAIN calls : ~IsIdentityChange(i)

\* the mount table the bind mount makes of the host's table
BoundTable == KBindRec(parentMounts, Arg(1))

\* the mount directory is the target directory or lies below it
UnderDir(dir, target) ==
    /\ Len(dir) >= Len(target)
    /\ SubSeq(dir, 1, Len(target)) = target
    /\ (Len(dir) = Len(target) \/ dir[Len(target) + 1] = "/")

\* the mount directory starts with the characters of the target directory
HasTextPrefix(dir, target) ==
    Len(dir) >= Len(target) /\ SubSeq(dir, 1, Len(target)) = target

RemountedOk(dir) ==
    \E k \in DOMAIN calls : IsRemount(k) /\ calls[k].path = dir /\ Succeeded(k)
RemountRefused(dir) ==
    \E k \in DOMAIN calls : IsRemount(k) /\ calls[k].path = dir /\ ~Succeeded(k)

NamespacesBeforeMounts ==
    \A i \in DOMAIN calls :
        /\ IsCall(i, "unshare") =>
              calls[i].flags = {"CLONE_NEWNS", "CLONE_NEWNET", "CLONE_NEWIPC"}
        /\ IsCall(i, "mount") => EarlierOk(i, "unshare") /\ unshared
        /\ (IsBind(i) \/ IsRemount(i)) =>
              /\ propagation = "private"
              /\ \E j \in 1..(i - 1) :
                    /\ IsMakePrivate(j) /\ Succeeded(j)
                    /\ calls[j].path = RootPath /\ "MS_REC" \in calls[j].flags
                    /\ EarlierOk(j, "unshare")

\* C5 witness: the make-private, the bind mount and a remount were all issued
AllMountCallsIssued ==
    \E i, j, k \in DOMAIN calls :
        IsMakePrivate(i) /\ IsBind(j) /\ Succeeded(j) /\ IsRemount(k)

\* C6: no step of the helper changes the mount table of the namespace it
\* was started in.
ParentMountsUnchanged == [][parentMounts' = parentMounts]_vars

\* C6 witness: the helper has bind-mounted and remounted read-only in its own
\* namespace, and has failed at a later stage
OwnMountsChangedThenFailed ==
    /\ pc = "exit"
    /\ Len(mounts) > Len(parentMounts)
    /\ \E i \in DOMAIN mounts :
          i \in DOMAIN BoundTable /\ mounts[i] # BoundTable[i]
    /\ \E k \in DOMAIN calls : IsRemount(k) /\ Succeeded(k)

\* the i-th call is a failure the helper does not tolerate: a failed call
\* other than a remount, or an argument strtol does not take whole
FatalCall(i) ==
    \/ calls[i].ret < 0 /\ ~IsRemount(i)
    \/ IsCall(i, "strtol") /\ NotNumeric(calls[i].path, strtol(calls[i].path).end)

ToleratedErrnos == {"EACCES", "EINVAL", "ESTALE", "EPERM"}

\* C7: a failed stage is followed by exit with non-zero status and by nothing
\* else; after exit no call is issued and no exec has happened; a failed
\* remount is the latest call only with a tolerated error; and after a failed
\* bind mount there is no chroot, identity change or exec.
FailClosed ==
    /\ \A i \in DOMAIN calls :
          /\ FatalCall(i) =>
                i + 1 = Len(calls) /\ IsCall(i + 1, "exit") /\ calls[i + 1].ret # 0
          /\ IsCall(i, "exit") =>
                /\ i = Len(calls)
                /\ pc = "exit" /\ exitStatus # 0 /\ image = NoImage
                /\ diag # NoDiag
          /\ (IsBind(i) /\ ~Succeeded(i)) =>
                /\ root = RootPath /\ cred \in {[uid |-> RootId, gid |-> CallerId]}
                /\ \A j \in DOMAIN calls :
                      ~(IsCall(j, "chroot") \/ IsIdentityChange(j) \/ IsCall(j, "execvp"))
    /\ (calls # <<>> /\ IsRemount(Len(calls)) /\ ~Succeeded(Len(calls)))
          => errno \in ToleratedErrnos
    /\ pc = "exit" <=> (calls # <<>> /\ IsCall(Len(calls), "exit"))

\* C7 witness: the bind mount failed because the root directory does not exist
BindFailedOnMissingDir ==
    /\ pc = "exit"
    /\ argc >= 5 /\ Arg(1) = MissingDir
    /\ diag = [fmt |-> "could not create bind mount at %s", arg |-> MissingDir,
               errno |-> "ENOENT"]

UsagePrivileged ==
    {"unshare", "mount", "setmntent", "chdir", "chroot", "setgid", "setuid", "execvp"}

\* C8: with fewer than four arguments after the program name no privileged
\* operation is issued, and the run ends with the usage diagnostic and a
\* non-zero status.
UsageOnly ==
    Len(argv) < 5 =>
        /\ \A i \in DOMAIN calls : calls[i].call \notin UsagePrivileged
        /\ ~unshared /\ mounts = parentMounts /\ root = RootPath /\ image = NoImage
        /\ pc \in {"start", "exit"}
        /\ pc = "exit" =>
              /\ exitStatus # 0
              /\ diag = [fmt |-> "usage: %s rootdir uid gid binary [args...]",
                         arg |-> argv[1], errno |-> "OK"]

\* C8 witness: an invocation with three arguments has ended in the usage error
UsageErrorWithThreeArgs ==
    Len(argv) = 4 /\ pc = "exit" /\ exitStatus = 1

\* C9: the flags of every remount are bind, remount and read-only plus
\* exactly those of nodev, noexec, nosuid, noatime, nodiratime and relatime
\* that are among the options of the entry remounted; and every mount under
\* the target prefix has, of these six options, exactly those it had before
\* the read-only pass.
RemountKeepsOptions ==
    (\E i \in DOMAIN calls : IsBind(i) /\ Succeeded(i)) =>
        LET before == BoundTable IN
        /\ \A i \in DOMAIN calls :
              IsRemount(i) =>
                  \E k \in DOMAIN before :
                      /\ before[k].mnt_dir = calls[i].path
                      /\ calls[i].flags =
                            {"MS_BIND", "MS_REMOUNT", "MS_RDONLY"}
                            \cup {f \in DOMAIN FlagOption :
                                     FlagOption[f] \in before[k].mnt_opts}
        /\ DOMAIN mounts = DOMAIN before
        /\ \A k \in DOMAIN mounts :
              HasTextPrefix(mounts[k].mnt_dir, Arg(1)) =>
                  mounts[k].mnt_opts \ {"ro", "rw"} = before[k].mnt_opts \ {"ro", "rw"}

\* C9 witness: a mount with nodev and noexec and without nosuid was remounted
\* read-only and still has exactly these
NoexecMountRemounted ==
    \E i \in DOMAIN calls : \E k \in DOMAIN mounts :
        /\ IsRemount(i) /\ Succeeded(i) /\ calls[i].path = mounts[k].mnt_dir
        /\ calls[i].flags = {"MS_BIND", "MS_REMOUNT", "MS_RDONLY", "MS_NODEV", "MS_NOEXEC"}
        /\ mounts[k].mnt_opts = {"ro", "nodev", "noexec"}

\* C10: setgid and setuid are called only with an argument that is a
\* well-formed non-negative decimal integer, without sign or white space.
OnlyDecimalIdsAccepted ==
    \A i \in DOMAIN calls :
        /\ IsCall(i, "setgid") => WellFormedId(Arg(3))
        /\ IsCall(i, "setuid") => WellFormedId(Arg(2))

\* the step issues a remount: the call it adds to the history
RemountIssued ==
    /\ Len(calls') > Len(calls)
    /\ calls'[Len(calls) + 1].call = "mount"
    /\ "MS_REMOUNT" \in calls'[Len(calls) + 1].flags

\* C11: a remount that fails with EACCES, EINVAL, ESTALE or EPERM is followed
\* by the next mount entry, with nothing changed and no diagnostic; a remount
\* that fails with another error is followed by exit(1) alone, at the same
\* entry, with no chroot, identity change or exec; and no step follows exit.
ToleratedRemountErrors ==
    [][/\ pc # "exit"
       /\ RemountIssued =>
            LET c == calls'[Len(calls) + 1] IN
            /\ pc = "getmntent" /\ (c.ret = 0 <=> errno' = "OK")
            /\ (c.ret < 0 /\ errno' \in ToleratedErrnos) =>
                  /\ pc' = "getmntent" /\ mntpos' = mntpos + 1
                  /\ calls' = Append(calls, c)
                  /\ mounts' = mounts /\ diag' = NoDiag /\ exitStatus' = -1
            /\ (c.ret < 0 /\ errno' \notin ToleratedErrnos) =>
                  /\ pc' = "exit" /\ exitStatus' = 1 /\ mntpos' = mntpos
                  /\ calls' = calls \o <<c, Call("exit", <<>>, {}, NoId, 1)>>
                  /\ diag' = [fmt |-> "could not set mountpoint %s read-only",
                              arg |-> c.path, errno |-> errno']
                  /\ root' = RootPath /\ cred' = cred /\ image' = NoImage
                  /\ \A j \in DOMAIN calls :
                        ~(IsCall(j, "chroot") \/ IsIdentityChange(j) \/ IsCall(j, "execvp"))
      ]_vars

\* C11 witness: a remount failed with EPERM and a later entry was remounted
RemountAfterToleratedFailure ==
    \E i, j \in DOMAIN calls :
        /\ i < j /\ IsRemount(i) /\ ~Succeeded(i) /\ IsRemount(j) /\ j = Len(calls)
        /\ errno = "EPERM" /\ pc = "getmntent"

\* the decimal value of a string of digits, exact: three 16-bit limbs, least
\* significant first, and a fourth that is left as large as it gets
RECURSIVE DecimalValue(_, _, _)
DecimalValue(s, i, m) ==
    IF i > Len(s)
    THEN m
    ELSE LET t1 == m[1] * 10 + DigitVal(s[i])
             t2 == m[2] * 10 + (t1 \div LimbBase)
             t3 == m[3] * 10 + (t2 \div LimbBase)
             t4 == m[4] * 10 + (t3 \div LimbBase)
         IN  DecimalValue(s, i + 1, <<t1 % LimbBase, t2 % LimbBase, t3 % LimbBase, t4>>)

\* the id is the number the string of digits writes
IsValueOf(idt, s) == DecimalValue(s, 1, ZeroMag) = <<idt.lo, idt.hi, 0, 0>>

\* C12: once the binary has been exec'd, the user and group id are the numbers
\* the uid and gid arguments write, the root is the target directory, and the
\* new image is the binary argument with the arguments from the binary
\* argument onward as its argument vector.
ExecAsRequested ==
    pc = "execd" =>
        /\ WellFormedId(Arg(2)) => IsValueOf(cred.uid, Arg(2))
        /\ WellFormedId(Arg(3)) => IsValueOf(cred.gid, Arg(3))
        /\ root = Arg(1)
        /\ image.file = Arg(4)
        /\ image.argv = SubSeq(argv, 5, Len(argv))
        /\ image.argv[1] = Arg(4)

\* main is sequential code that is always scheduled: whatever step it can
\* take, it takes
FairSpec == Spec /\ WF_vars(Next)

\* C13: every run ends replaced by the binary or in an exit with status 1;
\* the return after execvp is never reached and no exit has status 0.
AlwaysExecOrFatalExit ==
    /\ [](/\ pc # "return"
          /\ exitStatus # 0
          /\ pc = "exit" <=> exitStatus = 1
          /\ pc = "execd" => (exitStatus = -1 /\ image # NoImage))
    /\ <>[](pc \in {"execd", "exit"})

\* C13 witness: execvp returned, and the run ended in the fatal exit
ExecFailedThenExit ==
    /\ pc = "exit" /\ exitStatus = 1
    /\ \E i \in DOMAIN calls : IsCall(i, "execvp") /\ ~Succeeded(i)
    /\ diag.fmt = "could not exec new process"

\* the entry is one the claim selects: the target directory is a textual
\* prefix of its mount directory and its type is not "tmpfs"
Selected(ent, target) ==
    HasTextPrefix(ent.mnt_dir, target) /\ ent.mnt_type # "tmpfs"

\* the mount directories of the selected entries among the first n of a table
SelectedDirs(tbl, target, n) ==
    LET sel == SelectSeq(SubSeq(tbl, 1, n), LAMBDA e : Selected(e, target))
    IN  [k \in DOMAIN sel |-> sel[k].mnt_dir]

\* the directories of the remount calls issued so far, in order
RemountPaths ==
    LET rem == SelectSeq(calls, LAMBDA c : c.call = "mount" /\ "MS_REMOUNT" \in c.flags)
    IN  [k \in DOMAIN rem |-> rem[k].path]

\* the number of mount-table entries the loop has dealt with
EntriesVisited ==
    IF \E i \in DOMAIN calls : IsCall(i, "endmntent") THEN Len(mounts)
    ELSE IF mntpos = 0 THEN 0
    ELSE IF pc = "exit" THEN mntpos
    ELSE mntpos - 1

SetuidDone == \E i \in DOMAIN calls : IsCall(i, "setuid") /\ Succeeded(i)

\* C15: setgid and setuid are each called at most once and only after a
\* successful chroot; after a successful setuid the only call left is execvp
\* (and the exit that follows its failure); the ids change only in the step
\* that issues a successful setgid or setuid, to the id handed to the call,
\* and never again once setuid has succeeded.
IdentityChangesOnce ==
    /\ [](/\ Cardinality({i \in DOMAIN calls : IsCall(i, "setgid")}) <= 1
          /\ Cardinality({i \in DOMAIN calls : IsCall(i, "setuid")}) <= 1
          /\ \A i \in DOMAIN calls : IsIdentityChange(i) => EarlierOk(i, "chroot")
          /\ \A i, j \in DOMAIN calls :
                (IsCall(i, "setuid") /\ Succeeded(i) /\ i < j) =>
                    \/ j = i + 1 /\ IsCall(j, "execvp")
                    \/ j = i + 2 /\ IsCall(j, "exit") /\ ~Succeeded(i + 1)
          /\ SetuidDone => pc \in {"exec", "execd", "exit"})
    /\ [][/\ SetuidDone => cred' = cred
          /\ cred' # cred =>
                LET c == calls'[Len(calls) + 1] IN
                /\ calls' = Append(calls, c) /\ c.ret = 0
                /\ \/ c.call = "setgid" /\ cred' = [cred EXCEPT !.gid = c.id]
                   \/ c.call = "setuid" /\ cred' = [cred EXCEPT !.uid = c.id]
         ]_vars

\* C15 witness: both ids were changed, once each, and the binary was exec'd
IdentityDroppedThenExec ==
    /\ pc = "execd" /\ SetuidDone
    /\ cred = [uid |-> IdOf(5), gid |-> IdOf(5)]
    /\ Cardinality({i \in DOMAIN calls : IsIdentityChange(i)}) = 2

\* C16: the id handed to setgid is the number the gid argument writes and the
\* id handed to setuid is the number the uid argument writes, however large;
\* setuid is handed 0 only when the uid argument writes zero.
IdIsDecimalValue ==
    \A i \in DOMAIN calls :
        /\ (IsCall(i, "setgid") /\ WellFormedId(Arg(3))) =>
              IsValueOf(calls[i].id, Arg(3))
        /\ (IsCall(i, "setuid") /\ WellFormedId(Arg(2))) =>
              /\ IsValueOf(calls[i].id, Arg(2))
              /\ calls[i].id = RootId => DecimalValue(Arg(2), 1, ZeroMag) = ZeroMag

\* C17: the diagnostic of a malformed uid argument names the user id and
\* quotes the uid argument, as the diagnostic of a malformed gid argument
\* names the group id and quotes the gid argument.
DiagnosticQuotesOffendingId ==
    /\ diag.fmt = "invalid numeric user id '%s' given" =>
          /\ diag.arg = Arg(2)
          /\ NotNumeric(Arg(2), strtol(Arg(2)).end)
    /\ diag.fmt = "invalid numeric group id '%s' given" =>
          /\ diag.arg = Arg(3)
          /\ NotNumeric(Arg(3), strtol(Arg(3)).end)

====
